---- MODULE Spec2Model ----
(***************************************************************************)
(* Model of `latch exec`: the readiness loop of                            *)
(* latch_cli/services/execute.py (execute, lines 153-211) and the click    *)
(* command that calls it (latch_cli/main.py, lines 379-391).               *)
(*                                                                         *)
(* One loop iteration is three steps: select (line 165), the local-input   *)
(* branch (lines 167-170) and the remote-socket branch (lines 172-211).    *)
(* The remote side and the terminal are the environment: what they deliver *)
(* is chosen with \E from the bounded sets below.                          *)
(***************************************************************************)
EXTENDS Integers, Sequences, FiniteSets, TLC

\* ------------------------------------------------------------------ bounds
\* number of loop iterations explored
MaxIter == 2
\* longest details.causes list of a status document
MaxCauses == 2

\* --------------------------------------------------- protocol constants
\* kubernetes.stream.ws_client channel ids
STDIN_CHANNEL == 0
STDOUT_CHANNEL == 1
STDERR_CHANNEL == 2
ERROR_CHANNEL == 3
\* websocket.ABNF opcodes
OPCODE_CONT == 0
OPCODE_TEXT == 1
OPCODE_BINARY == 2
OPCODE_CLOSE == 8
OPCODE_PING == 9
OPCODE_PONG == 10

\* ------------------------------------------------------------- helpers
Last(s) == s[Len(s)]

SeqsUpTo(S, n) == UNION {[1..k -> S] : k \in 0..n}

\* the value int() cannot produce for a decimal text: stands for ValueError
ValueError == -1

Digits == <<"0", "1", "2", "3", "4", "5", "6", "7", "8", "9">>

DigitVal(c) == (CHOOSE i \in 1..10 : Digits[i] = c) - 1

IsDigit(c) == \E i \in 1..10 : Digits[i] = c

RECURSIVE int_digits(_)
int_digits(text) ==
    IF text = <<>> THEN 0
    ELSE 10 * int_digits(SubSeq(text, 1, Len(text) - 1)) + DigitVal(Last(text))

\* int(cause["message"]) (line 193) on a text given as its characters
int(text) ==
    IF text = <<>> \/ \E i \in 1..Len(text) : ~IsDigit(text[i])
    THEN ValueError
    ELSE int_digits(text)

\* the decimal text of n, as the remote side writes an exit code
RECURSIVE str(_)
str(n) ==
    IF n < 10 THEN <<Digits[n + 1]>>
    ELSE Append(str(n \div 10), Digits[(n % 10) + 1])

\* ------------------------------------------------- environment: inputs
\* byte strings carried by frames and read from the terminal
ByteStrings == {<<>>, <<65>>, <<66>>}

\* exit codes the remote process may report
ExitCodes == {3, 17}

\* one entry of details.causes: a reason and a message text
Cause(r, m) == [reason |-> r, message |-> m]

Causes ==
    {Cause("ExitCode", str(n)) : n \in ExitCodes} \cup {Cause("FieldValueInvalid", <<"x">>)}

CauseLists == SeqsUpTo(Causes, MaxCauses)

\* a decoded status object: `has` is the set of optional keys present
\* ("status" is always present); an absent key keeps its default value.
\* "details" comes with reason "NonZeroExitCode" only.
StatusDoc(s, h, r, m, cs) ==
    [status |-> s, has |-> h, reason |-> r, message |-> m, causes |-> cs]

NoDoc == StatusDoc("", {}, "", "", <<>>)

StatusDocs ==
    {StatusDoc(s,
               (IF r = "" THEN {} ELSE {"reason"}) \cup
               (IF m = "" THEN {} ELSE {"message"}),
               r, m, <<>>) :
        s \in {"Success", "Failure"},
        r \in {"", "NonZeroExitCode", "SomethingElse"},
        m \in {"", "boom"}}
      \cup
    {StatusDoc(s,
               {"reason", "details"} \cup (IF m = "" THEN {} ELSE {"message"}),
               "NonZeroExitCode", m, cs) :
        s \in {"Success", "Failure"},
        m \in {"", "boom"},
        cs \in CauseLists}

\* the bytes after the channel byte: raw bytes, or the text of a JSON object
BytesPayload(b) == [kind |-> "bytes", bytes |-> b, doc |-> NoDoc]

JsonPayload(d) == [kind |-> "json", bytes |-> <<>>, doc |-> d]

RawPayloads == {BytesPayload(b) : b \in ByteStrings}

JsonPayloads == {JsonPayload(d) : d \in StatusDocs}

NoPayload == BytesPayload(<<>>)

\* len(data)
len(data) == IF data.kind = "json" THEN 1 ELSE Len(data.bytes)

\* channel ids an inbound frame may carry
InChannels == {STDIN_CHANNEL, STDOUT_CHANNEL, STDERR_CHANNEL, ERROR_CHANNEL, 9}

\* frame.data: empty, or the channel byte followed by the payload
NoData == <<>>

FrameData ==
    {NoData}
      \cup {<<c, p>> : c \in InChannels, p \in RawPayloads}
      \cup {<<ERROR_CHANNEL, p>> : p \in JsonPayloads}

Opcodes == {OPCODE_CONT, OPCODE_TEXT, OPCODE_BINARY, OPCODE_CLOSE, OPCODE_PING, OPCODE_PONG}

\* what recv_data_frame(True) returns: (opcode, frame)
Frame(o, d) == [opcode |-> o, data |-> d]

Frames ==
    {Frame(OPCODE_BINARY, d) : d \in FrameData}
      \cup {Frame(o, NoData) : o \in Opcodes \ {OPCODE_BINARY}}

\* os.read(stdin, 32 * 1024): a chunk, empty at end of input
Chunks == ByteStrings

\* ------------------------------------------------------------- outcomes
\* how services.execute.execute ends
NoOutcome == [kind |-> "none", code |-> 0, exc |-> ""]

Return(n) == [kind |-> "return", code |-> n, exc |-> ""]

SysExit(n) == [kind |-> "sysexit", code |-> n, exc |-> ""]

Raise(e) == [kind |-> "raise", code |-> 0, exc |-> e]

\* a line printed to sys.stderr
Line(w, s, m, c, d, o) ==
    [what |-> w, status |-> s, message |-> m, channel |-> c, data |-> d, opcode |-> o]

BlankLine == Line("blank", "", "", -1, NoPayload, -1)

StatusLine(s, m) == Line("status", s, m, -1, NoPayload, -1)

ChannelLine(c) == Line("channel", "", "", c, NoPayload, -1)

DataLine(d) == Line("data", "", "", -1, d, -1)

OpcodeLine(o) == Line("opcode", "", "", -1, NoPayload, o)

\* ------------------------------------------------------ status decoding
\* what a handler does besides ending: bytes for os.write, lines for print
Effect(o, e, p, oc, rm, cl) ==
    [out |-> o, err |-> e, printed |-> p, outcome |-> oc, remove |-> rm, close |-> cl]

\* variant of for_cause: the last cause whose reason is "ExitCode" decides
RECURSIVE for_cause_last(_)
for_cause_last(causes) ==
    IF causes = <<>> THEN NoOutcome
    ELSE IF Last(causes).reason = "ExitCode"
         THEN IF int(Last(causes).message) = ValueError
              THEN Raise("ValueError")
              ELSE Return(int(Last(causes).message))
         ELSE for_cause_last(SubSeq(causes, 1, Len(causes) - 1))

\* for cause in error["details"]["causes"]: the first cause whose reason is
\* "ExitCode" decides; NoOutcome when the loop ends without a return
RECURSIVE for_cause(_)
for_cause(causes) ==
    IF causes = <<>> THEN NoOutcome
    ELSE IF Head(causes).reason = "ExitCode"
         THEN IF int(Head(causes).message) = ValueError
              THEN Raise("ValueError")
              ELSE Return(int(Head(causes).message))
         ELSE for_cause(Tail(causes))

\* the `if error["reason"] == "NonZeroExitCode"` block
exit_code_of(error) ==
    IF error.reason # "NonZeroExitCode" THEN NoOutcome
    ELSE IF "details" \notin error.has THEN Raise("KeyError")
    ELSE for_cause(error.causes)

\* variant of on_status: the reason is looked at before the status
on_status_reason_first(error) ==
    IF "reason" \notin error.has
    THEN Effect(<<>>, <<>>, <<>>, Raise("KeyError"), FALSE, TRUE)
    ELSE IF exit_code_of(error) # NoOutcome
    THEN Effect(<<>>, <<>>, <<>>, exit_code_of(error), FALSE, TRUE)
    ELSE IF error.status = "Success"
    THEN Effect(<<>>, <<>>, <<>>, Return(0), FALSE, TRUE)
    ELSE IF "message" \notin error.has
    THEN Effect(<<>>, <<>>, <<BlankLine>>, Raise("KeyError"), FALSE, TRUE)
    ELSE Effect(<<>>, <<>>,
                <<BlankLine, StatusLine(error.status, error.message), BlankLine>>,
                SysExit(1), FALSE, TRUE)

\* the status object after json.loads: return, sys.exit or a KeyError
on_status(error) ==
    IF error.status = "Success" THEN Effect(<<>>, <<>>, <<>>, Return(0), FALSE, TRUE)
    ELSE IF "reason" \notin error.has
    THEN Effect(<<>>, <<>>, <<>>, Raise("KeyError"), FALSE, TRUE)
    ELSE IF exit_code_of(error) # NoOutcome
    THEN Effect(<<>>, <<>>, <<>>, exit_code_of(error), FALSE, TRUE)
    ELSE IF "message" \notin error.has
    THEN Effect(<<>>, <<>>, <<BlankLine>>, Raise("KeyError"), FALSE, TRUE)
    ELSE Effect(<<>>, <<>>,
                <<BlankLine, StatusLine(error.status, error.message), BlankLine>>,
                SysExit(1), FALSE, TRUE)

\* variant of on_error_channel: a payload that is no JSON is written to
\* local stderr before json.loads raises
on_error_channel_echo(data) ==
    IF data.kind # "json"
    THEN Effect(<<>>, data.bytes, <<>>, Raise("JSONDecodeError"), FALSE, TRUE)
    ELSE on_status(data.doc)

\* variant of on_error_channel: the payload is decoded before the stream
\* is closed
on_error_channel_decode_first(data) ==
    IF data.kind # "json"
    THEN Effect(<<>>, <<>>, <<>>, Raise("JSONDecodeError"), FALSE, FALSE)
    ELSE on_status(data.doc)

\* json.loads(data), then the status branch
on_error_channel(data) ==
    IF data.kind # "json"
    THEN Effect(<<>>, <<>>, <<>>, Raise("JSONDecodeError"), FALSE, TRUE)
    ELSE on_status(data.doc)

\* variant of on_output_channel: the two descriptors are exchanged
on_output_channel_swapped(channel, data) ==
    IF len(data) = 0 THEN Effect(<<>>, <<>>, <<>>, NoOutcome, FALSE, FALSE)
    ELSE IF channel = STDOUT_CHANNEL
    THEN Effect(<<>>, data.bytes, <<>>, NoOutcome, FALSE, FALSE)
    ELSE Effect(data.bytes, <<>>, <<>>, NoOutcome, FALSE, FALSE)

\* stdout/stderr branch: os.write of a non-empty payload
on_output_channel(channel, data) ==
    IF len(data) = 0 THEN Effect(<<>>, <<>>, <<>>, NoOutcome, FALSE, FALSE)
    ELSE IF channel = STDOUT_CHANNEL
    THEN Effect(data.bytes, <<>>, <<>>, NoOutcome, FALSE, FALSE)
    ELSE Effect(<<>>, data.bytes, <<>>, NoOutcome, FALSE, FALSE)

\* variant of on_unexpected_channel: the frame is dropped, the loop goes on
on_unexpected_channel_dropped(channel, data) ==
    Effect(<<>>, <<>>, <<>>, NoOutcome, FALSE, FALSE)

\* the else branch for any other channel id
on_unexpected_channel(channel, data) ==
    Effect(<<>>, <<>>,
           <<BlankLine, ChannelLine(channel), DataLine(data), BlankLine>>,
           SysExit(1), FALSE, FALSE)

\* the OPCODE_BINARY branch: channel = frame.data[0], data = frame.data[1:]
on_binary(frame_data) ==
    IF frame_data = NoData
    THEN Effect(<<>>, <<>>, <<>>, Raise("IndexError"), FALSE, FALSE)
    ELSE LET channel == frame_data[1]
             data == frame_data[2]
         IN IF channel \in {STDOUT_CHANNEL, STDERR_CHANNEL}
            THEN on_output_channel(channel, data)
            ELSE IF channel = ERROR_CHANNEL
            THEN on_error_channel(data)
            ELSE on_unexpected_channel(channel, data)

\* the else branch for any other opcode
on_unexpected_opcode(opcode) ==
    Effect(<<>>, <<>>, <<BlankLine, OpcodeLine(opcode), BlankLine>>,
           SysExit(1), FALSE, FALSE)

\* variant of on_frame: a close opcode leaves the readiness set as it is
on_frame_keep(f) ==
    IF f.opcode = OPCODE_CLOSE
    THEN Effect(<<>>, <<>>, <<>>, NoOutcome, FALSE, FALSE)
    ELSE IF f.opcode = OPCODE_BINARY
    THEN on_binary(f.data)
    ELSE on_unexpected_opcode(f.opcode)

\* the body of `if wssock.sock in rs` after recv_data_frame returned f
on_frame(f) ==
    IF f.opcode = OPCODE_CLOSE
    THEN Effect(<<>>, <<>>, <<>>, NoOutcome, TRUE, FALSE)
    ELSE IF f.opcode = OPCODE_BINARY
    THEN on_binary(f.data)
    ELSE on_unexpected_opcode(f.opcode)

\* variant of forwarded: every chunk is sent, an empty one too
forwarded_always(data) == TRUE

\* if len(data) > 0: only a chunk that is not empty is sent
forwarded(data) == Len(data) > 0

\* variant of stdin_frame: the chunk goes out behind the stdout channel byte
stdin_frame_stdout_channel(data) == Frame(OPCODE_BINARY, <<STDOUT_CHANNEL>> \o data)

\* stdin_channel + data, sent with OPCODE_BINARY
stdin_frame(data) == Frame(OPCODE_BINARY, <<STDIN_CHANNEL>> \o data)

\* ------------------------------------------------------------ CLI boundary
\* variant of process_exit: the handler is `except BaseException`
process_exit_catch_all(oc) ==
    IF oc.kind \in {"sysexit", "raise"} THEN [code |-> 0, secho |-> TRUE]
    ELSE [code |-> 0, secho |-> FALSE]

\* main.execute: the return value of the service is dropped, `except
\* Exception` prints a message and returns, SystemExit passes through
process_exit(oc) ==
    IF oc.kind = "sysexit" THEN [code |-> oc.code, secho |-> FALSE]
    ELSE IF oc.kind = "raise" THEN [code |-> 0, secho |-> TRUE]
    ELSE [code |-> 0, secho |-> FALSE]

\* ------------------------------------------------- credentials and profile
\* the keys _fetch_pod_info reads from the broker response, in its order
ResponseKeys ==
    <<"tmp_access_key", "tmp_secret_key", "tmp_session_token", "cert_auth_data",
      "cluster_endpoint", "namespace", "aws_account_id">>

KeySet == {ResponseKeys[i] : i \in DOMAIN ResponseKeys}

\* values a response field may hold; "" marks an absent key
FieldValues == {"v1", "v2"}

\* the broker's answer: whether the endpoint accepted the token, the keys of
\* the JSON body and their values
Response(st, v) == [http |-> st, has |-> {k \in KeySet : v[k] # ""}, val |-> v]

\* every body over the seven keys, and the body of a rejection
Responses ==
    {Response("ok", v) : v \in [KeySet -> FieldValues \cup {""}]}
      \cup {Response("rejected", [k \in KeySet |-> ""])}

GoodResponse == Response("ok", [k \in KeySet |-> "v1"])

\* the answers a whole session is explored with
SessionResponses ==
    {GoodResponse,
     Response("ok", [k \in KeySet |-> IF k = "namespace" THEN "" ELSE "v1"]),
     Response("rejected", [k \in KeySet |-> ""])}

\* the tuple _fetch_pod_info returns
Credentials(a, s, t, c, e, n, acc) ==
    [access_key |-> a, secret_key |-> s, session_token |-> t, cert_auth_data |-> c,
     cluster_endpoint |-> e, namespace |-> n, aws_account_id |-> acc]

NoCreds == Credentials("", "", "", "", "", "", "")

\* variant of _fetch_pod_info: the keys are read with a default
_fetch_pod_info_get(resp) ==
    [outcome |-> NoOutcome,
     value |-> Credentials(resp.val["tmp_access_key"], resp.val["tmp_secret_key"],
                           resp.val["tmp_session_token"], resp.val["cert_auth_data"],
                           resp.val["cluster_endpoint"], resp.val["namespace"],
                           resp.val["aws_account_id"])]

\* _fetch_pod_info after requests.post returned: the tuple, or ValueError
\* when a key is missing (the HTTP status is not looked at)
_fetch_pod_info(resp) ==
    IF \E i \in DOMAIN ResponseKeys : ResponseKeys[i] \notin resp.has
    THEN [outcome |-> Raise("ValueError"), value |-> NoCreds]
    ELSE [outcome |-> NoOutcome,
          value |-> Credentials(resp.val["tmp_access_key"], resp.val["tmp_secret_key"],
                                resp.val["tmp_session_token"], resp.val["cert_auth_data"],
                                resp.val["cluster_endpoint"], resp.val["namespace"],
                                resp.val["aws_account_id"])]

region_code == "us-west-2"

cluster_name == "prion-prod"

\* arn:aws:eks:{region_code}:{account_id}:cluster/{cluster_name}
Arn(account_id) ==
    <<"arn:aws:eks:", region_code, ":", account_id, ":cluster/", cluster_name>>

\* the document _construct_kubeconfig renders, entry by entry
_construct_kubeconfig(cert_auth_data, cluster_endpoint, account_id, access_key, secret_key, session_token) ==
    [clusters |-> <<[certificate_authority_data |-> cert_auth_data,
                     server |-> cluster_endpoint,
                     name |-> Arn(account_id)]>>,
     contexts |-> <<[cluster |-> Arn(account_id),
                     user |-> Arn(account_id),
                     name |-> Arn(account_id)]>>,
     current_context |-> Arn(account_id),
     users |-> <<[name |-> Arn(account_id),
                  command |-> "aws",
                  args |-> <<"--region", region_code, "eks", "get-token",
                             "--cluster-name", cluster_name>>,
                  env |-> [AWS_ACCESS_KEY_ID |-> access_key,
                           AWS_SECRET_ACCESS_KEY |-> secret_key,
                           AWS_SESSION_TOKEN |-> session_token]]>>]

\* variant of config_data_of: access key and secret key change places
config_data_of_swapped(c) ==
    _construct_kubeconfig(c.cert_auth_data, c.cluster_endpoint, c.aws_account_id,
                          c.secret_key, c.access_key, c.session_token)

\* config_data = _construct_kubeconfig(...) as execute calls it
config_data_of(c) ==
    _construct_kubeconfig(c.cert_auth_data, c.cluster_endpoint, c.aws_account_id,
                          c.access_key, c.secret_key, c.session_token)

NoProfile == config_data_of(NoCreds)

\* the profile an earlier session rendered, from other credentials
StaleProfile == config_data_of(Credentials("v2", "v2", "v2", "v2", "v2", "v2", "v2"))

\* the file ./config: the documents it holds and whether a handle is open
File(ex, op, ct) == [exists |-> ex, open |-> op, content |-> ct]

AbsentFile == File(FALSE, FALSE, <<>>)

StaleFile == File(TRUE, FALSE, <<StaleProfile>>)

\* variant of open_w: the file is opened for appending
open_a(file) == File(TRUE, TRUE, file.content)

\* open(config_file, "w"): created or truncated
open_w(file) == File(TRUE, TRUE, <<>>)

\* c.write(config_data)
write(file, data) == [file EXCEPT !.content = Append(@, data)]

\* leaving the with block closes the handle; the file stays
close(file) == [file EXCEPT !.open = FALSE]

\* kubernetes.config.load_kube_config("config"): the document at that path
load_kube_config(file) ==
    IF ~file.exists \/ file.content = <<>>
    THEN [outcome |-> Raise("ConfigException"), value |-> NoProfile]
    ELSE [outcome |-> NoOutcome, value |-> Head(file.content)]

\* ------------------------------------------------------------------ state
VARIABLES
    pc,          \* position in execute: "fetch", "construct", "open", "write",
                 \* "close", "load", "connect", then "select", "stdin", "sock"
                 \* in the loop; "ended"; "exit"
    response,    \* what the broker answers
    creds,       \* the tuple _fetch_pod_info returned
    config_data, \* the rendered profile
    config_file, \* the file ./config
    kube_config, \* the profile the kubernetes client loaded
    iter,        \* iterations started
    rlist,       \* the readiness set passed to select
    rs,          \* the ready set select returned
    stdin_read,  \* chunks os.read returned, in order
    ws_sent,     \* frames handed to wssock.send, in order
    ws_recv,     \* frames recv_data_frame returned, in order
    stdout,      \* bytes written to local stdout by os.write
    stderr,      \* bytes written to local stderr by os.write
    printed,     \* lines printed to sys.stderr
    ws_closed,   \* wssock.close() was called
    outcome,     \* how services.execute.execute ended
    exit_code,   \* exit code of the process
    secho        \* "Unable to exec into ..." was printed

vars == <<pc, response, creds, config_data, config_file, kube_config, iter, rlist,
          rs, stdin_read, ws_sent, ws_recv, stdout, stderr, printed, ws_closed,
          outcome, exit_code, secho>>

setup_vars == <<response, creds, config_data, config_file, kube_config>>

pump_vars == <<iter, rlist, rs, stdin_read, ws_sent, ws_recv, stdout, stderr, printed,
               ws_closed>>

\* execute is entered: the broker's answer is one of R, ./config is absent
\* or left by an earlier session
InitFor(R) ==
    /\ pc = "fetch"
    /\ response \in R
    /\ creds = NoCreds
    /\ config_data = NoProfile
    /\ config_file \in {AbsentFile, StaleFile}
    /\ kube_config = NoProfile
    /\ iter = 0
    /\ rlist = {}
    /\ rs = {}
    /\ stdin_read = <<>>
    /\ ws_sent = <<>>
    /\ ws_recv = <<>>
    /\ stdout = <<>>
    /\ stderr = <<>>
    /\ printed = <<>>
    /\ ws_closed = FALSE
    /\ outcome = NoOutcome
    /\ exit_code = -1
    /\ secho = FALSE

Init == InitFor(SessionResponses)

\* token = retrieve_or_login(); (...) = _fetch_pod_info(token, task_name)
FetchPodInfo ==
    /\ pc = "fetch"
    /\ LET r == _fetch_pod_info(response)
       IN /\ creds' = r.value
          /\ outcome' = r.outcome
          /\ pc' = IF r.outcome = NoOutcome THEN "construct" ELSE "ended"
    /\ UNCHANGED <<response, config_data, config_file, kube_config, exit_code, secho>>
    /\ UNCHANGED pump_vars

\* config_data = _construct_kubeconfig(...)
ConstructKubeconfig ==
    /\ pc = "construct"
    /\ config_data' = config_data_of(creds)
    /\ pc' = "open"
    /\ UNCHANGED <<response, creds, config_file, kube_config, outcome, exit_code, secho>>
    /\ UNCHANGED pump_vars

\* with open(config_file, "w") as c:
OpenConfig ==
    /\ pc = "open"
    /\ config_file' = open_w(config_file)
    /\ pc' = "write"
    /\ UNCHANGED <<response, creds, config_data, kube_config, outcome, exit_code, secho>>
    /\ UNCHANGED pump_vars

\* c.write(config_data)
WriteConfig ==
    /\ pc = "write"
    /\ config_file' = write(config_file, config_data)
    /\ pc' = "close"
    /\ UNCHANGED <<response, creds, config_data, kube_config, outcome, exit_code, secho>>
    /\ UNCHANGED pump_vars

\* the with block is left
CloseConfig ==
    /\ pc = "close"
    /\ config_file' = close(config_file)
    /\ pc' = "load"
    /\ UNCHANGED <<response, creds, config_data, kube_config, outcome, exit_code, secho>>
    /\ UNCHANGED pump_vars

\* kubernetes.config.load_kube_config("config")
LoadKubeConfig ==
    /\ pc = "load"
    /\ LET r == load_kube_config(config_file)
       IN /\ kube_config' = r.value
          /\ outcome' = r.outcome
          /\ pc' = IF r.outcome = NoOutcome THEN "connect" ELSE "ended"
    /\ UNCHANGED <<response, creds, config_data, config_file, exit_code, secho>>
    /\ UNCHANGED pump_vars

\* wssock = stream(...).sock either raises or returns the open stream, then
\* rlist = [wssock.sock, stdin]
Connect ==
    /\ pc = "connect"
    /\ \E ok \in BOOLEAN :
         IF ok
         THEN /\ rlist' = {"sock", "stdin"}
              /\ pc' = "select"
              /\ UNCHANGED outcome
         ELSE /\ outcome' = Raise("ApiException")
              /\ pc' = "ended"
              /\ UNCHANGED rlist
    /\ UNCHANGED <<iter, rs, stdin_read, ws_sent, ws_recv, stdout, stderr, printed,
                   ws_closed, exit_code, secho>>
    /\ UNCHANGED setup_vars

\* rs, _ws, _xs = select.select(rlist, [], []): some descriptors are ready
Select ==
    /\ pc = "select"
    /\ iter < MaxIter
    /\ \E ready \in (SUBSET rlist) \ {{}} : rs' = ready
    /\ iter' = iter + 1
    /\ pc' = "stdin"
    /\ UNCHANGED <<rlist, stdin_read, ws_sent, ws_recv, stdout, stderr, printed,
                   ws_closed, outcome, exit_code, secho>>
    /\ UNCHANGED setup_vars

\* if stdin in rs: read a chunk and send it when it is not empty; the send
\* either succeeds or raises (the transport is gone)
ReadInput ==
    /\ pc = "stdin"
    /\ IF "stdin" \notin rs
       THEN /\ pc' = "sock"
            /\ UNCHANGED <<stdin_read, ws_sent, outcome>>
       ELSE \E data \in Chunks :
              /\ stdin_read' = Append(stdin_read, data)
              /\ IF forwarded(data)
                 THEN /\ ws_sent' = Append(ws_sent, stdin_frame(data))
                      /\ \E ok \in BOOLEAN :
                           IF ok
                           THEN pc' = "sock" /\ UNCHANGED outcome
                           ELSE /\ pc' = "ended"
                                /\ outcome' = Raise("WebSocketException")
                 ELSE /\ pc' = "sock"
                      /\ UNCHANGED <<ws_sent, outcome>>
    /\ UNCHANGED <<iter, rlist, rs, ws_recv, stdout, stderr, printed, ws_closed,
                   exit_code, secho>>
    /\ UNCHANGED setup_vars

\* if wssock.sock in rs: recv_data_frame either raises or returns a frame,
\* which is handled to the end of the iteration
ReadSocket ==
    /\ pc = "sock"
    /\ IF "sock" \notin rs
       THEN /\ pc' = "select"
            /\ UNCHANGED <<rlist, ws_recv, stdout, stderr, printed, ws_closed, outcome>>
       ELSE \/ /\ pc' = "ended"
               /\ outcome' = Raise("WebSocketException")
               /\ UNCHANGED <<rlist, ws_recv, stdout, stderr, printed, ws_closed>>
            \/ \E f \in Frames :
                 LET e == on_frame(f)
                 IN /\ ws_recv' = Append(ws_recv, f)
                    /\ rlist' = IF e.remove THEN rlist \ {"sock"} ELSE rlist
                    /\ stdout' = stdout \o e.out
                    /\ stderr' = stderr \o e.err
                    /\ printed' = printed \o e.printed
                    /\ ws_closed' = (ws_closed \/ e.close)
                    /\ outcome' = e.outcome
                    /\ pc' = IF e.outcome = NoOutcome THEN "select" ELSE "ended"
    /\ UNCHANGED <<iter, rs, stdin_read, ws_sent, exit_code, secho>>
    /\ UNCHANGED setup_vars

\* main.execute after the service call ended, then the interpreter exits
cli_execute ==
    /\ pc = "ended"
    /\ pc' = "exit"
    /\ exit_code' = process_exit(outcome).code
    /\ secho' = process_exit(outcome).secho
    /\ UNCHANGED <<iter, rlist, rs, stdin_read, ws_sent, ws_recv, stdout, stderr,
                   printed, ws_closed, outcome>>
    /\ UNCHANGED setup_vars

Next ==
    \/ FetchPodInfo \/ ConstructKubeconfig \/ OpenConfig \/ WriteConfig \/ CloseConfig
    \/ LoadKubeConfig \/ Connect
    \/ Select \/ ReadInput \/ ReadSocket \/ cli_execute

Spec == Init /\ [][Next]_vars

\* the broker and profile stages alone, over every answer of the broker
BrokerInit == InitFor(Responses)

BrokerNext ==
    \/ FetchPodInfo \/ ConstructKubeconfig \/ OpenConfig \/ WriteConfig \/ CloseConfig
    \/ LoadKubeConfig \/ cli_execute

BrokerSpec == BrokerInit /\ [][BrokerNext]_vars

\* Past the explored iterations the terminal is at end of input and the
\* remote side is silent: select returns [stdin] at once ...
SelectAtEof ==
    /\ pc = "select"
    /\ iter = MaxIter
    /\ "stdin" \in rlist
    /\ rs' = {"stdin"}
    /\ pc' = "eof"
    /\ UNCHANGED <<iter, rlist, stdin_read, ws_sent, ws_recv, stdout, stderr, printed,
                   ws_closed, outcome, exit_code, secho>>
    /\ UNCHANGED setup_vars

\* ... os.read returns b"", nothing is sent, the socket is not in rs, and
\* the loop is at select again (these reads are not added to stdin_read)
ReadAtEof ==
    /\ pc = "eof"
    /\ pc' = "select"
    /\ UNCHANGED <<iter, rlist, rs, stdin_read, ws_sent, ws_recv, stdout, stderr,
                   printed, ws_closed, outcome, exit_code, secho>>
    /\ UNCHANGED setup_vars

LiveNext == Next \/ SelectAtEof \/ ReadAtEof

\* one thread that never pauses: a step that can be taken is taken
LiveSpec == Init /\ [][LiveNext]_vars /\ WF_vars(LiveNext)

TypeOK ==
    /\ pc \in {"fetch", "construct", "open", "write", "close", "load", "connect",
              "select", "stdin", "sock", "eof", "ended", "exit"}
    /\ iter \in 0..MaxIter
    /\ rlist \subseteq {"sock", "stdin"}
    /\ rs \subseteq {"sock", "stdin"}
    /\ outcome.kind \in {"none", "return", "sysexit", "raise"}

\* ----------------------------------------------- vocabulary of the claims
\* the pump is no longer in the loop
Ended == pc \in {"ended", "exit"}

\* f is a binary frame that carries a channel byte
HasChannel(f) == f.opcode = OPCODE_BINARY /\ f.data # NoData

ChannelOf(f) == f.data[1]

PayloadOf(f) == f.data[2]

\* f is a channel-3 frame whose payload is a JSON object
IsStatusFrame(f) ==
    HasChannel(f) /\ ChannelOf(f) = ERROR_CHANNEL /\ PayloadOf(f).kind = "json"

\* the frame read last is a status frame
StatusReceived == ws_recv # <<>> /\ IsStatusFrame(Last(ws_recv))

LastDoc == PayloadOf(Last(ws_recv)).doc

\* the status object reports a non-zero exit whose code is n: the first cause
\* with reason "ExitCode" has the decimal text of n as its message
ReportsExitCode(d, n) ==
    /\ d.status = "Failure"
    /\ "reason" \in d.has /\ d.reason = "NonZeroExitCode"
    /\ "details" \in d.has
    /\ \E i \in 1..Len(d.causes) :
         /\ d.causes[i] = Cause("ExitCode", str(n))
         /\ \A j \in 1..(i - 1) : d.causes[j].reason # "ExitCode"

\* the status object reports a failure without a decodable exit code
ReportsGenericFailure(d) ==
    /\ d.status = "Failure"
    /\ \/ "reason" \notin d.has
       \/ d.reason # "NonZeroExitCode"
       \/ "details" \notin d.has
       \/ \A i \in 1..Len(d.causes) : d.causes[i].reason # "ExitCode"

\* the payload bytes of the frames of channel c, concatenated in receipt order
RECURSIVE Routed(_, _)
Routed(c, frames) ==
    IF frames = <<>> THEN <<>>
    ELSE LET f == Head(frames)
         IN (IF HasChannel(f) /\ ChannelOf(f) = c THEN PayloadOf(f).bytes ELSE <<>>)
              \o Routed(c, Tail(frames))

\* ----------------------------------------------------------------- claims
\* C1: at the CLI boundary the process exits with the code the remote status
\* frame reports: n for a non-zero exit with decodable code n, 0 for Success.
C1_ProcessExitsWithRemoteCode ==
    (pc = "exit" /\ StatusReceived) =>
        /\ LastDoc.status = "Success" => exit_code = 0
        /\ \A n \in ExitCodes : ReportsExitCode(LastDoc, n) => exit_code = n

\* C2: a status frame with status Failure, reason NonZeroExitCode and a first
\* ExitCode cause whose message is the decimal text of n ends the pump with
\* exit code n, whatever frames preceded it.
C2_DecodedExitCode ==
    StatusReceived =>
        \A n \in ExitCodes :
            ReportsExitCode(LastDoc, n) => Ended /\ outcome = Return(n)

C2_Witness ==
    /\ StatusReceived
    /\ Len(ws_recv) > 1
    /\ ws_sent # <<>>
    /\ Len(LastDoc.causes) = 2
    /\ LastDoc.causes[1].reason # "ExitCode"
    /\ ReportsExitCode(LastDoc, 17)
    /\ outcome = Return(17)

\* C3: a status frame whose status is Success ends the pump with exit code
\* 0, whatever the other fields of the payload and the frames before it.
C3_SuccessIsZero ==
    (StatusReceived /\ LastDoc.status = "Success") => Ended /\ outcome = Return(0)

C3_Witness ==
    /\ StatusReceived
    /\ Len(ws_recv) > 1
    /\ LastDoc.status = "Success"
    /\ LastDoc.has = {"reason", "message", "details"}
    /\ LastDoc.reason = "NonZeroExitCode"
    /\ LastDoc.causes # <<>> /\ LastDoc.causes[1].reason = "ExitCode"
    /\ outcome = Return(0)

\* C4: a status frame that reports a failure without a decodable exit code
\* prints a diagnostic and ends the session with the generic failure code 1,
\* whichever optional fields are present: never a decoded code, never 0.
C4_GenericFailureExitsOne ==
    (StatusReceived /\ ReportsGenericFailure(LastDoc)) =>
        /\ Ended
        /\ outcome = SysExit(1)
        /\ \E i \in 1..Len(printed) : printed[i].what = "status"
        /\ pc = "exit" => exit_code = 1

\* C5: a binary frame whose channel id is outside {1, 2, 3} prints a
\* diagnostic, writes none of its payload to local stdout and ends the whole
\* process with exit code 1, past the CLI's exception handler; it is never
\* dropped with the loop going on.
C5_UnexpectedChannelIsFatal ==
    (ws_recv # <<>> /\ HasChannel(Last(ws_recv))
       /\ ChannelOf(Last(ws_recv)) \notin {STDOUT_CHANNEL, STDERR_CHANNEL, ERROR_CHANNEL}) =>
        /\ Ended
        /\ outcome = SysExit(1)
        /\ printed = <<BlankLine, ChannelLine(ChannelOf(Last(ws_recv))),
                       DataLine(PayloadOf(Last(ws_recv))), BlankLine>>
        /\ stdout = Routed(STDOUT_CHANNEL, SubSeq(ws_recv, 1, Len(ws_recv) - 1))
        /\ pc = "exit" => (exit_code = 1 /\ ~secho)

C5_Witness ==
    /\ pc = "exit"
    /\ Len(ws_recv) > 1
    /\ HasChannel(Last(ws_recv))
    /\ ChannelOf(Last(ws_recv)) = STDIN_CHANNEL
    /\ len(PayloadOf(Last(ws_recv))) > 0
    /\ stdout # <<>>
    /\ exit_code = 1

\* once the pump has ended nothing more is read, sent or written
NothingAfterEnd ==
    Ended => /\ ws_recv' = ws_recv
             /\ stdin_read' = stdin_read
             /\ ws_sent' = ws_sent
             /\ stdout' = stdout
             /\ stderr' = stderr

\* the frame read last has an opcode that is neither close nor binary
UnexpectedOpcodeReceived ==
    ws_recv # <<>> /\ Last(ws_recv).opcode \notin {OPCODE_CLOSE, OPCODE_BINARY}

\* C6: a transport event whose opcode is neither close nor binary prints a
\* diagnostic naming the opcode and ends the whole process with exit code 1;
\* no further frame is read and no further input is forwarded.
C6_UnexpectedOpcodeIsFatal ==
    /\ [](UnexpectedOpcodeReceived =>
            /\ Ended
            /\ outcome = SysExit(1)
            /\ printed = <<BlankLine, OpcodeLine(Last(ws_recv).opcode), BlankLine>>
            /\ pc = "exit" => (exit_code = 1 /\ ~secho))
    /\ [][NothingAfterEnd]_vars

C6_Witness ==
    /\ pc = "exit"
    /\ UnexpectedOpcodeReceived
    /\ Last(ws_recv).opcode = OPCODE_PING
    /\ Len(ws_recv) > 1
    /\ ws_sent # <<>>
    /\ exit_code = 1

\* the session ended on a transport error: the send or the frame read raised
TransportError == outcome = Raise("WebSocketException")

\* C7: an unrecoverable transport error during the session makes the process
\* exit with code 1, not with code 0.
C7_TransportErrorExitsOne ==
    (pc = "exit" /\ TransportError) => exit_code = 1

\* C8: at every point local stdout holds exactly the payloads of the
\* channel-1 frames received so far, concatenated in receipt order, and the
\* data written to local stderr exactly those of the channel-2 frames.
C8_OutputInReceiptOrder ==
    /\ stdout = Routed(STDOUT_CHANNEL, ws_recv)
    /\ stderr = Routed(STDERR_CHANNEL, ws_recv)

C8_Witness ==
    /\ Len(ws_recv) = 2
    /\ HasChannel(ws_recv[1]) /\ ChannelOf(ws_recv[1]) = STDERR_CHANNEL
    /\ HasChannel(ws_recv[2]) /\ ChannelOf(ws_recv[2]) = STDOUT_CHANNEL
    /\ stderr = <<65>>
    /\ stdout = <<66>>
    /\ stdin_read # <<>>

\* the non-empty chunks, each behind the stdin channel byte in a binary frame
RECURSIVE Forwarded(_)
Forwarded(chunks) ==
    IF chunks = <<>> THEN <<>>
    ELSE (IF Head(chunks) = <<>> THEN <<>>
          ELSE <<[opcode |-> OPCODE_BINARY, data |-> <<0>> \o Head(chunks)]>>)
           \o Forwarded(Tail(chunks))

\* the local-input branch writes nothing to local output
InputNotEchoed ==
    stdin_read' # stdin_read =>
        stdout' = stdout /\ stderr' = stderr /\ printed' = printed

\* C9: the frames the pump writes to the remote stream are exactly the
\* non-empty chunks read from local input, in the order read, each as one
\* binary frame of channel byte 0 and the unmodified chunk; local input is
\* never echoed to local stdout or stderr.
C9_InputForwardedInOrder ==
    /\ [](ws_sent = Forwarded(stdin_read))
    /\ [][InputNotEchoed]_vars

C9_Witness ==
    /\ stdin_read = <<<<66>>, <<65>>>>
    /\ Len(ws_sent) = 2
    /\ ws_recv # <<>>
    /\ pc = "sock"

\* some channel-3 frame was received (its payload a JSON object or not)
ErrorChannelReceived ==
    ws_recv # <<>> /\ HasChannel(Last(ws_recv)) /\ ChannelOf(Last(ws_recv)) = ERROR_CHANNEL

\* a printed line that quotes fields of a frame's payload
QuotesPayload(line) == line.what \in {"status", "data"}

\* C10 as stated: nothing of a channel-3 frame's payload is written to local
\* stdout or local stderr, whatever the status it reports.
C10_StatusNeverReachesOutput ==
    ErrorChannelReceived =>
        /\ stdout = Routed(STDOUT_CHANNEL, ws_recv)
        /\ stderr = Routed(STDERR_CHANNEL, ws_recv)
        /\ \A i \in 1..Len(printed) : ~QuotesPayload(printed[i])

\* C10 (amended): a channel-3 frame writes nothing to local stdout and no
\* data to local stderr, and prints nothing on success or a decoded exit
\* code; only the generic-failure diagnostic printed to stderr quotes the
\* payload's status and message fields.
C10_StatusOnlyInDiagnostic ==
    ErrorChannelReceived =>
        /\ stdout = Routed(STDOUT_CHANNEL, SubSeq(ws_recv, 1, Len(ws_recv) - 1))
        /\ stderr = Routed(STDERR_CHANNEL, SubSeq(ws_recv, 1, Len(ws_recv) - 1))
        /\ outcome.kind = "return" => printed = <<>>
        /\ (\E i \in 1..Len(printed) : QuotesPayload(printed[i])) =>
             /\ StatusReceived
             /\ ReportsGenericFailure(LastDoc)
             /\ outcome = SysExit(1)
             /\ printed = <<BlankLine, StatusLine(LastDoc.status, LastDoc.message), BlankLine>>

C10_Witness ==
    /\ StatusReceived
    /\ ReportsGenericFailure(LastDoc)
    /\ stdout # <<>>
    /\ printed = <<BlankLine, StatusLine("Failure", "boom"), BlankLine>>
    /\ pc = "exit"

\* ------------------------------------------------ claims on the session
\* a close opcode was read
CloseSeen == \E i \in 1..Len(ws_recv) : ws_recv[i].opcode = OPCODE_CLOSE

\* C11: once the transport close opcode has been received the session
\* eventually ends with a result instead of looping forever.
C11_CloseEndsSession == CloseSeen ~> Ended

\* C12: a broker response that lacks any of the seven fields makes the fetch
\* fail with the malformed-response error and return no tuple; a tuple is
\* returned only when all seven are present, each value the response's.
C12_FetchAllOrNothing ==
    pc # "fetch" =>
        /\ (KeySet \ response.has # {}) =>
             /\ creds = NoCreds
             /\ outcome = Raise("ValueError")
             /\ Ended
        /\ creds # NoCreds =>
             /\ response.has = KeySet
             /\ creds.access_key = response.val["tmp_access_key"]
             /\ creds.secret_key = response.val["tmp_secret_key"]
             /\ creds.session_token = response.val["tmp_session_token"]
             /\ creds.cert_auth_data = response.val["cert_auth_data"]
             /\ creds.cluster_endpoint = response.val["cluster_endpoint"]
             /\ creds.namespace = response.val["namespace"]
             /\ creds.aws_account_id = response.val["aws_account_id"]

C12_Witness ==
    /\ pc = "exit"
    /\ response.http = "ok"
    /\ response.has = KeySet \ {"cluster_endpoint"}
    /\ creds = NoCreds
    /\ outcome = Raise("ValueError")

\* C13: when the endpoint rejects the identity token the fetch fails with an
\* AuthError, an outcome distinct from the malformed-response one.
C13_RejectionIsAuthError ==
    (pc # "fetch" /\ response.http = "rejected") =>
        /\ outcome = Raise("AuthError")
        /\ outcome # _fetch_pod_info(Response("ok", [k \in KeySet |-> ""])).outcome

\* the name every entry of the profile must carry
ExpectedName ==
    <<"arn:aws:eks:", "us-west-2", ":", creds.aws_account_id, ":cluster/", "prion-prod">>

\* C14: the rendered profile names one cluster, one context and one user;
\* cluster name, context name, the context's cluster and user, the user name
\* and current-context are one string built from the fixed region, the
\* account id and the fixed cluster name; keys, token, certificate data and
\* endpoint in the profile equal the inputs.
C14_ProfileMatchesCredential ==
    pc \in {"open", "write", "close", "load", "connect"} =>
        /\ Len(config_data.clusters) = 1
        /\ Len(config_data.contexts) = 1
        /\ Len(config_data.users) = 1
        /\ config_data.clusters[1].name = ExpectedName
        /\ config_data.contexts[1].name = ExpectedName
        /\ config_data.contexts[1].cluster = ExpectedName
        /\ config_data.contexts[1].user = ExpectedName
        /\ config_data.users[1].name = ExpectedName
        /\ config_data.current_context = ExpectedName
        /\ config_data.users[1].env.AWS_ACCESS_KEY_ID = response.val["tmp_access_key"]
        /\ config_data.users[1].env.AWS_SECRET_ACCESS_KEY = response.val["tmp_secret_key"]
        /\ config_data.users[1].env.AWS_SESSION_TOKEN = response.val["tmp_session_token"]
        /\ config_data.clusters[1].certificate_authority_data = response.val["cert_auth_data"]
        /\ config_data.clusters[1].server = response.val["cluster_endpoint"]

C14_Witness ==
    /\ pc = "open"
    /\ response.val["tmp_access_key"] = "v1"
    /\ response.val["tmp_secret_key"] = "v2"
    /\ response.val["aws_account_id"] = "v2"
    /\ response.val["cert_auth_data"] = "v1"
    /\ config_data.users[1].env.AWS_SECRET_ACCESS_KEY = "v2"
    /\ config_data.current_context[4] = "v2"

\* the file holds the profile this session rendered
FileHoldsSecrets == config_data # NoProfile /\ config_file.content = <<config_data>>

\* C15: once a session has ended, on any exit path, the file that holds the
\* session's secrets no longer exists.
C15_FileRemovedAtExit ==
    (pc = "exit" /\ FileHoldsSecrets) => ~config_file.exists

\* C16: the profile is completely written and the file closed before the
\* client loads it and before the stream is opened; what is loaded is this
\* session's profile, never the one an earlier session left.
C16_WrittenBeforeLoaded ==
    /\ pc = "load" =>
         /\ config_file.exists /\ ~config_file.open
         /\ config_file.content = <<config_data>>
    /\ kube_config # NoProfile =>
         /\ kube_config = config_data
         /\ kube_config.users[1].env.AWS_ACCESS_KEY_ID = creds.access_key
         /\ kube_config # StaleProfile
         /\ ~config_file.open
    /\ rlist # {} => kube_config # NoProfile

C16_Witness ==
    /\ pc = "select"
    /\ rlist = {"sock", "stdin"}
    /\ kube_config = config_data
    /\ kube_config # NoProfile
    /\ config_file = File(TRUE, FALSE, <<config_data>>)

\* the step reads a close opcode from the stream
CloseRead == ws_recv' # ws_recv /\ Last(ws_recv').opcode = OPCODE_CLOSE

\* C17: the readiness set starts as {socket, input}; input stays a member;
\* the socket is removed exactly when a close opcode is read and never comes
\* back; a frame is read only while the socket is in the set.
C17_ReadinessSet ==
    /\ [][(pc = "connect" /\ pc' = "select") => rlist' = {"sock", "stdin"}]_vars
    /\ [](pc \in {"select", "stdin", "sock"} => "stdin" \in rlist)
    /\ [][CloseRead <=> ("sock" \in rlist /\ "sock" \notin rlist')]_vars
    /\ [][(rlist # {} /\ "sock" \notin rlist) => "sock" \notin rlist']_vars
    /\ [][ws_recv' # ws_recv => ("sock" \in rlist /\ "sock" \in rs)]_vars

C17_Witness ==
    /\ CloseSeen
    /\ rlist = {"stdin"}
    /\ iter = 2
    /\ pc = "sock"
    /\ Len(stdin_read) = 2

\* C18: reading a status-channel frame ends the loop at once: the stream is
\* closed before the payload is decoded, and afterwards no frame is read, no
\* input is read or forwarded and nothing is written to local stdout.
C18_StatusEndsLoop ==
    /\ [](ErrorChannelReceived => (Ended /\ ws_closed /\ outcome # NoOutcome))
    /\ [][NothingAfterEnd]_vars

C18_Witness ==
    /\ ErrorChannelReceived
    /\ PayloadOf(Last(ws_recv)).kind = "bytes"
    /\ Len(ws_recv) = 2
    /\ ws_sent # <<>>
    /\ ws_closed
    /\ pc = "exit"

\* some read from local input returned no bytes
EofSeen == \E i \in 1..Len(stdin_read) : stdin_read[i] = <<>>

\* the step reads a stdout or stderr frame whose payload is empty
EmptyOutputRead ==
    /\ ws_recv' # ws_recv
    /\ HasChannel(Last(ws_recv'))
    /\ ChannelOf(Last(ws_recv')) \in {STDOUT_CHANNEL, STDERR_CHANNEL}
    /\ PayloadOf(Last(ws_recv')).bytes = <<>>

\* C19: a zero-length read from local input sends nothing and does not end
\* the session: later stdout/stderr frames are still written and a later
\* status frame still decides the result; an empty stdout/stderr frame
\* writes nothing and does not end the loop either.
C19_EofKeepsPolling ==
    /\ [][stdin_read' = Append(stdin_read, <<>>) =>
            (ws_sent' = ws_sent /\ pc' = "sock" /\ outcome' = NoOutcome)]_vars
    /\ [][EmptyOutputRead =>
            (stdout' = stdout /\ stderr' = stderr /\ pc' = "select"
               /\ outcome' = NoOutcome)]_vars
    /\ [](EofSeen =>
            /\ stdout = Routed(STDOUT_CHANNEL, ws_recv)
            /\ stderr = Routed(STDERR_CHANNEL, ws_recv)
            /\ StatusReceived =>
                 /\ LastDoc.status = "Success" => outcome = Return(0)
                 /\ \A n \in ExitCodes :
                      ReportsExitCode(LastDoc, n) => outcome = Return(n))

C19_Witness ==
    /\ stdin_read = <<<<>>>>
    /\ ws_sent = <<>>
    /\ stdout = <<65>>
    /\ Len(ws_recv) = 2
    /\ StatusReceived
    /\ outcome = Return(17)

\* C20: once the close opcode has been received the pump never again hands
\* a stdin-channel frame to the stream.
C20_NoSendAfterClose == [][CloseSeen => ws_sent' = ws_sent]_vars

\* the frame read last is a binary frame that is neither output for local
\* stdout/stderr nor a channel-3 frame handed to the status decoder
UnclassifiedBinaryReceived ==
    /\ ws_recv # <<>>
    /\ Last(ws_recv).opcode = OPCODE_BINARY
    /\ ~(/\ HasChannel(Last(ws_recv))
         /\ ChannelOf(Last(ws_recv)) \in {STDOUT_CHANNEL, STDERR_CHANNEL, ERROR_CHANNEL})

\* C21: every inbound binary frame, also one of zero length that carries no
\* channel byte, is routed to local stdout/stderr, decoded as a status, or
\* rejected as a protocol violation with a diagnostic and process exit code 1;
\* no inbound binary frame ends the session with exit code 0 unclassified.
C21_BinaryFrameClassified ==
    (pc = "exit" /\ UnclassifiedBinaryReceived /\ ~TransportError) =>
        /\ outcome = SysExit(1)
        /\ exit_code = 1
        /\ printed # <<>>

====
